---- MODULE Spec2Model ----
(***************************************************************************)
(* Model of app.py, the Streamlit video transcriber.                       *)
(*                                                                         *)
(* Text is a sequence of Unicode code points, a byte string a sequence of  *)
(* numbers 0..255.  One step of the model is one run of the script: the    *)
(* handler of the button that was clicked (if any) followed by the         *)
(* rendering of the transcript area, the download control and the          *)
(* activity feed.                                                          *)
(***************************************************************************)
EXTENDS Integers, Sequences, FiniteSets, TLC

\* ------------------------------------------------------------------ bounds
\* most lines the user pastes into the links text area
MaxLines == 2
\* longest activity log of a session that uses every control
MaxLog == 2
\* longest activity log of a session that never pastes a link
MaxFeedLog == 11
\* longest media title the retrieval collaborator reports
MaxTitleLen == 3

\* ---------------------------------------------------- environment's inputs
\* lines the user pastes into the links area: " ", "a", " b "
Lines == {<<32>>, <<97>>, <<32, 98, 32>>}
\* texts the transcription collaborator returns: "" and "hé€\U0001f600"
Texts == {<< >>, <<104, 233, 8364, 128512>>}
\* str(exc) of a collaborator's exception: "!"
ExcMsgs == {<<33>>}
\* names of the files the user drops: "v.mp4"
FileNames == {<<118, 46, 109, 112, 52>>}
\* temporary directories: "/t", "/t.d"
OutDirs == {<<47, 116>>, <<47, 116, 46, 100>>}
\* characters of a media title: "a", "."
TitleChars == {97, 46}
\* container extensions the retrieval collaborator downloads: mp3, webm, m4a
Exts == {<<109, 112, 51>>, <<119, 101, 98, 109>>, <<109, 52, 97>>}

\* all sequences over S of length 0..n
RECURSIVE SeqUpTo(_, _)
SeqUpTo(S, n) ==
    IF n = 0 THEN {<< >>}
    ELSE LET shorter == SeqUpTo(S, n - 1)
         IN  shorter \cup {Append(s, c) : s \in {t \in shorter : Len(t) = n - 1}, c \in S}

\* ---------------------------------------------------------- string literals
\* "### Source: "
SourcePrefix == <<35, 35, 35, 32, 83, 111, 117, 114, 99, 101, 58, 32>>
\* "\n"
Newline == <<10>>
\* "\n\n"
BlankLine == <<10, 10>>
\* "✅ Transcribed upload: "
UploadOkPrefix == <<9989, 32, 84, 114, 97, 110, 115, 99, 114, 105, 98, 101, 100, 32, 117, 112, 108, 111, 97, 100, 58, 32>>
\* "✅ Transcribed link: "
LinkOkPrefix == <<9989, 32, 84, 114, 97, 110, 115, 99, 114, 105, 98, 101, 100, 32, 108, 105, 110, 107, 58, 32>>
\* "❌ Failed link: "
LinkFailPrefix == <<10060, 32, 70, 97, 105, 108, 101, 100, 32, 108, 105, 110, 107, 58, 32>>
\* "\U0001f9f9 Cleared links and uploader content"
ClearedLinksMsg == <<129529, 32, 67, 108, 101, 97, 114, 101, 100, 32, 108, 105, 110, 107, 115, 32, 97, 110, 100, 32, 117, 112, 108, 111, 97, 100, 101, 114, 32, 99, 111, 110, 116, 101, 110, 116>>
\* "\U0001f9fc Cleared transcript"
ClearedTranscriptMsg == <<129532, 32, 67, 108, 101, 97, 114, 101, 100, 32, 116, 114, 97, 110, 115, 99, 114, 105, 112, 116>>
\* ".mp3"
Mp3Suffix == <<46, 109, 112, 51>>
\* the slice bound of status_log[-10:]
FeedLimit == 10

\* ------------------------------------------------------ Python's str methods
\* characters str.splitlines() breaks a line at
LineBreaks == {10, 11, 12, 13, 28, 29, 30, 133, 8232, 8233}
\* characters str.strip() removes (str.isspace)
Whitespace ==
    {9, 10, 11, 12, 13, 28, 29, 30, 31, 32, 133, 160, 5760, 8232, 8233, 8239, 8287, 12288}
        \cup (8192..8202)

\* s[i..] (1-based, empty when i > Len(s))
Drop(s, i) == SubSeq(s, i, Len(s))

\* str.splitlines(): the lines of text without their line breaks; "\r\n" is
\* one break, and a break at the very end opens no further line
RECURSIVE splitlines(_)
splitlines(text) ==
    IF text = << >> THEN << >>
    ELSE LET brk  == {i \in 1..Len(text) : text[i] \in LineBreaks}
             n    == IF brk = {} THEN Len(text) + 1
                     ELSE CHOOSE i \in brk : \A j \in brk : i <= j
             next == IF n < Len(text) /\ text[n] = 13 /\ text[n + 1] = 10
                     THEN n + 2 ELSE n + 1
         IN  <<SubSeq(text, 1, n - 1)>> \o splitlines(Drop(text, next))

\* str.strip(): without leading and trailing whitespace
strip(s) ==
    LET keep == {i \in 1..Len(s) : s[i] \notin Whitespace}
    IN  IF keep = {} THEN << >>
        ELSE SubSeq(s, CHOOSE i \in keep : \A j \in keep : i <= j,
                       CHOOSE i \in keep : \A j \in keep : j <= i)

\* str.join(): the parts with sep between each two
RECURSIVE join(_, _)
join(sep, parts) ==
    IF parts = << >> THEN << >>
    ELSE IF Len(parts) = 1 THEN parts[1]
    ELSE parts[1] \o sep \o join(sep, Tail(parts))

\* reversed(): the items last to first
reversed(s) == [i \in 1..Len(s) |-> s[Len(s) + 1 - i]]

\* s[:n], the slip of slicing from the wrong end
FirstItems(s, n) == IF Len(s) <= n THEN s ELSE SubSeq(s, 1, n)

\* s[-n:]: the last n items, all of them when there are fewer
LastItems(s, n) == IF Len(s) <= n THEN s ELSE SubSeq(s, Len(s) - n + 1, Len(s))

\* the UTF-8 bytes of one code point
EncodeChar(c) ==
    IF c < 128 THEN <<c>>
    ELSE IF c < 2048 THEN <<192 + (c \div 64), 128 + (c % 64)>>
    ELSE IF c < 65536
         THEN <<224 + (c \div 4096), 128 + ((c \div 64) % 64), 128 + (c % 64)>>
    ELSE <<240 + (c \div 262144), 128 + ((c \div 4096) % 64),
           128 + ((c \div 64) % 64), 128 + (c % 64)>>

\* str.encode("utf-8")
RECURSIVE encode(_)
encode(text) ==
    IF text = << >> THEN << >> ELSE EncodeChar(Head(text)) \o encode(Tail(text))

\* split_links testing the lines without stripping them
split_links_unstripped(text) ==
    SelectSeq(splitlines(text), LAMBDA line : line # << >>)

\* split_links: the stripped non-blank lines of the links text, in order
split_links(text) ==
    LET lines    == splitlines(text)
        nonblank == SelectSeq(lines, LAMBDA line : strip(line) # << >>)
    IN  [i \in 1..Len(nonblank) |-> strip(nonblank[i])]

\* the path split at its first dot, as p.split(".")[0] would
splitext_first_dot(p) ==
    LET dots == {i \in 1..Len(p) : p[i] = 46}
        dot  == IF dots = {} THEN Len(p) + 1 ELSE CHOOSE i \in dots : \A j \in dots : i <= j
    IN  <<SubSeq(p, 1, dot - 1), Drop(p, dot)>>

\* os.path.splitext: the path split before the last dot of its file name; a
\* dot counts only after the last separator and after a character of the
\* file name that is not a dot
splitext(p) ==
    LET seps     == {i \in 1..Len(p) : p[i] = 47}
        sepIndex == IF seps = {} THEN 0 ELSE CHOOSE i \in seps : \A j \in seps : j <= i
        dots     == {i \in 1..Len(p) : p[i] = 46}
        dotIndex == IF dots = {} THEN 0 ELSE CHOOSE i \in dots : \A j \in dots : j <= i
        named    == {i \in (sepIndex + 1)..(dotIndex - 1) : p[i] # 46}
    IN  IF dotIndex > sepIndex /\ named # {}
        THEN <<SubSeq(p, 1, dotIndex - 1), Drop(p, dotIndex)>>
        ELSE <<p, << >>>>

\* ------------------------------------------------------------ collaborators
\* titles as the retrieval collaborator writes them into a file name: never
\* empty and never starting with a dot
Titles == {t \in SeqUpTo(TitleChars, MaxTitleLen) : t # << >> /\ t[1] # 46}

\* ydl.prepare_filename with outtmpl "<out_dir>/%(title).120s.%(ext)s"
prepare_filename(out_dir, title, ext) ==
    out_dir \o <<47>> \o SubSeq(title, 1, IF Len(title) < 120 THEN Len(title) ELSE 120)
            \o <<46>> \o ext

\* download_link_media after the retrieval: files are the paths that exist
\* in out_dir once extract_info has returned
download_link_media(downloaded, files) ==
    LET base          == splitext(downloaded)[1]
        mp3_candidate == base \o Mp3Suffix
    IN  IF mp3_candidate \in files THEN mp3_candidate ELSE downloaded

\* what one link, or the upload, meets: the text of a transcription that
\* returned, or the stage that raised and str() of its exception
OkOutcomes ==
    {[ok |-> TRUE, stage |-> "done", text |-> t, msg |-> << >>] : t \in Texts}
TranscribeFailures ==
    {[ok |-> FALSE, stage |-> "transcribe", text |-> << >>, msg |-> m] : m \in ExcMsgs}
DownloadFailures ==
    {[ok |-> FALSE, stage |-> "download", text |-> << >>, msg |-> m] : m \in ExcMsgs}
UploadOutcomes == OkOutcomes \cup TranscribeFailures
LinkOutcomes == OkOutcomes \cup TranscribeFailures \cup DownloadFailures

\* --------------------------------------------------------------------- state
VARIABLES
    uploader_version,   \* st.session_state.uploader_version
    links_input,        \* st.session_state.links_input, the links text area
    transcript,         \* st.session_state.transcript
    status_log,         \* st.session_state.status_log
    uploaded_file,      \* the file in the uploader: << >> or <<name>>
    run,                \* the last run of the script: button, inputs, notices
    screen,             \* what the last run rendered below the divider
    dl                  \* a call of download_link_media: arguments and result

session == <<uploader_version, links_input, transcript, status_log>>
vars == <<uploader_version, links_input, transcript, status_log, uploaded_file,
          run, screen, dl>>

\* a run in which no button is clicked
NoButton ==
    [button |-> "none", links |-> << >>, outs |-> << >>,
     downloads |-> 0, transcriptions |-> 0, notice |-> "none"]

\* a run that stopped before the divider
NotRendered ==
    [rendered |-> FALSE, area |-> << >>, has_download |-> FALSE, download |-> << >>,
     has_feed |-> FALSE, feed |-> << >>]

\* the items the activity feed writes, top to bottom
Feed(log) == reversed(LastItems(log, FeedLimit))

\* the data encoded as ASCII with "?" for every other character
DownloadDataAscii(text) == [i \in 1..Len(text) |-> IF text[i] < 128 THEN text[i] ELSE 63]

\* the data of the download button
DownloadData(text) == encode(text)

\* what the script hands to the transcript area, the download button and
\* the activity feed
Render(text, log) ==
    [rendered     |-> TRUE,
     area         |-> text,
     has_download |-> text # << >>,
     download     |-> IF text # << >> THEN DownloadData(text) ELSE << >>,
     has_feed     |-> log # << >>,
     feed         |-> IF log # << >> THEN Feed(log) ELSE << >>]

NoDownload ==
    [out_dir |-> << >>, title |-> << >>, ext |-> << >>, files |-> {},
     done |-> FALSE, result |-> << >>]

Init ==
    /\ uploader_version = 0
    /\ links_input = << >>
    /\ transcript = << >>
    /\ status_log = << >>
    /\ uploaded_file = << >>
    /\ run = NoButton
    /\ screen = Render(<< >>, << >>)
    /\ dl = NoDownload

\* ------------------------------------------------------------ user's inputs
\* the user changes the links text; the script reruns with no button clicked
EditLinks ==
    /\ \E lines \in SeqUpTo(Lines, MaxLines) : links_input' = join(Newline, lines)
    /\ run' = NoButton
    /\ screen' = Render(transcript, status_log)
    /\ UNCHANGED <<uploader_version, transcript, status_log, uploaded_file, dl>>

\* the user drops a file into the uploader or removes it; the script reruns
UploadFile ==
    /\ \E f \in {<< >>} \cup {<<name>> : name \in FileNames} : uploaded_file' = f
    /\ run' = NoButton
    /\ screen' = Render(transcript, status_log)
    /\ UNCHANGED <<session, dl>>

\* ----------------------------------------------------------------- handlers
UploadOkEntry(name) == UploadOkPrefix \o name
LinkOkEntry(url) == LinkOkPrefix \o url
LinkFailEntry(url, msg) == LinkFailPrefix \o url \o <<32, 40>> \o msg \o <<41>>
\* the section without the line break after its heading
SectionWithoutBreak(url, text) == SourcePrefix \o url \o text
Section(url, text) == SourcePrefix \o url \o Newline \o text

\* an append that keeps only the entries the feed shows
LogAppendBounded(log, entry) == LastItems(Append(log, entry), FeedLimit)

\* status_log.append
LogAppend(log, entry) == Append(log, entry)

\* the upload handler logging the failure as the links handler does
TranscribeUploadedLogsFailure(cap) ==
    /\ IF uploaded_file = << >>
       THEN /\ run' = [NoButton EXCEPT !.button = "upload", !.notice = "warning"]
            /\ UNCHANGED <<transcript, status_log>>
       ELSE \E out \in UploadOutcomes :
            /\ run' = [NoButton EXCEPT !.button = "upload", !.outs = <<out>>,
                                       !.transcriptions = 1,
                                       !.notice = IF out.ok THEN "none" ELSE "error"]
            /\ Len(status_log) < cap
            /\ IF out.ok
               THEN /\ transcript' = out.text
                    /\ status_log' = LogAppend(status_log, UploadOkEntry(uploaded_file[1]))
               ELSE /\ transcript' = transcript
                    /\ status_log' = LogAppend(status_log,
                                        LinkFailEntry(uploaded_file[1], out.msg))
    /\ screen' = Render(transcript', status_log')
    /\ UNCHANGED <<uploader_version, links_input, uploaded_file, dl>>

\* "Transcribe Uploaded Video"
TranscribeUploaded(cap) ==
    /\ IF uploaded_file = << >>
       THEN /\ run' = [NoButton EXCEPT !.button = "upload", !.notice = "warning"]
            /\ UNCHANGED <<transcript, status_log>>
       ELSE \E out \in UploadOutcomes :
            /\ run' = [NoButton EXCEPT !.button = "upload", !.outs = <<out>>,
                                       !.transcriptions = 1,
                                       !.notice = IF out.ok THEN "none" ELSE "error"]
            /\ IF out.ok
               THEN /\ Len(status_log) < cap
                    /\ transcript' = out.text
                    /\ status_log' = LogAppend(status_log, UploadOkEntry(uploaded_file[1]))
               ELSE UNCHANGED <<transcript, status_log>>
    /\ screen' = Render(transcript', status_log')
    /\ UNCHANGED <<uploader_version, links_input, uploaded_file, dl>>

\* the loop leaving at the first link that fails
RECURSIVE LinkLoopUntilFailure(_, _, _, _)
LinkLoopUntilFailure(links, outs, collected, log) ==
    IF links = << >> THEN [collected |-> collected, log |-> log]
    ELSE LET url == Head(links)
             out == Head(outs)
         IN  IF out.ok
             THEN LinkLoopUntilFailure(Tail(links), Tail(outs),
                                       Append(collected, Section(url, out.text)),
                                       LogAppend(log, LinkOkEntry(url)))
             ELSE [collected |-> collected,
                   log |-> LogAppend(log, LinkFailEntry(url, out.msg))]

\* the loop over the links: collected sections and the log after it
RECURSIVE LinkLoop(_, _, _, _)
LinkLoop(links, outs, collected, log) ==
    IF links = << >> THEN [collected |-> collected, log |-> log]
    ELSE LET url == Head(links)
             out == Head(outs)
         IN  IF out.ok
             THEN LinkLoop(Tail(links), Tail(outs),
                           Append(collected, Section(url, out.text)),
                           LogAppend(log, LinkOkEntry(url)))
             ELSE LinkLoop(Tail(links), Tail(outs), collected,
                           LogAppend(log, LinkFailEntry(url, out.msg)))

\* the transcript replaced whatever was collected
CollectedTranscriptAlways(collected, old) == join(BlankLine, collected)

\* the transcript after the loop: replaced when something was collected
CollectedTranscript(collected, old) ==
    IF collected # << >> THEN join(BlankLine, collected) ELSE old

\* "Transcribe Links"
TranscribeLinks(cap) ==
    LET links == split_links(links_input)
    IN  /\ IF links = << >>
           THEN /\ run' = [NoButton EXCEPT !.button = "links", !.notice = "warning"]
                /\ UNCHANGED <<transcript, status_log>>
           ELSE /\ Len(status_log) + Len(links) <= cap
                /\ \E outs \in [1..Len(links) -> LinkOutcomes] :
                    LET after == LinkLoop(links, outs, << >>, status_log)
                    IN  /\ run' = [NoButton EXCEPT
                                     !.button = "links", !.links = links, !.outs = outs,
                                     !.downloads = Len(links),
                                     !.transcriptions =
                                        Cardinality({k \in 1..Len(links) :
                                                        outs[k].stage # "download"})]
                        /\ transcript' = CollectedTranscript(after.collected, transcript)
                        /\ status_log' = after.log
        /\ screen' = Render(transcript', status_log')
        /\ UNCHANGED <<uploader_version, links_input, uploaded_file, dl>>

\* the text area with key "links_input" is created in every run before the
\* handlers are reached
LinksWidgetInstantiated == TRUE

\* "Clear Links + Drag Content".  Streamlit refuses an assignment to the
\* session-state key of a widget that the run has already created: it
\* raises StreamlitAPIException, which ends the run at that statement.
ClearLinks(cap) ==
    IF LinksWidgetInstantiated
    THEN /\ run' = [NoButton EXCEPT !.button = "clear_links", !.notice = "exception"]
         /\ screen' = NotRendered
         /\ UNCHANGED <<session, uploaded_file, dl>>
    ELSE /\ Len(status_log) < cap
         /\ links_input' = << >>
         /\ uploader_version' = uploader_version + 1
         /\ status_log' = LogAppend(status_log, ClearedLinksMsg)
         \* st.rerun(): the script runs again, with a new, empty uploader
         /\ uploaded_file' = << >>
         /\ run' = [NoButton EXCEPT !.button = "clear_links"]
         /\ screen' = Render(transcript, status_log')
         /\ UNCHANGED <<transcript, dl>>

\* "Clear Transcript"
ClearTranscript(cap) ==
    /\ Len(status_log) < cap
    /\ transcript' = << >>
    /\ status_log' = LogAppend(status_log, ClearedTranscriptMsg)
    /\ run' = [NoButton EXCEPT !.button = "clear_transcript"]
    /\ screen' = Render(transcript', status_log')
    /\ UNCHANGED <<uploader_version, links_input, uploaded_file, dl>>

\* a session in which every control is used
Next ==
    \/ EditLinks
    \/ UploadFile
    \/ TranscribeUploaded(MaxLog)
    \/ TranscribeLinks(MaxLog)
    \/ ClearLinks(MaxLog)
    \/ ClearTranscript(MaxLog)

Spec == Init /\ [][Next]_vars

\* a session in which no link is ever pasted
NextFeed ==
    \/ UploadFile
    \/ TranscribeUploaded(MaxFeedLog)
    \/ TranscribeLinks(MaxFeedLog)
    \/ ClearLinks(MaxFeedLog)
    \/ ClearTranscript(MaxFeedLog)

SpecFeed == Init /\ [][NextFeed]_vars

\* ------------------------------------------- download_link_media on its own
InitDownload ==
    /\ uploader_version = 0
    /\ links_input = << >>
    /\ transcript = << >>
    /\ status_log = << >>
    /\ uploaded_file = << >>
    /\ run = NoButton
    /\ screen = Render(<< >>, << >>)
    /\ \E out_dir \in OutDirs, title \in Titles, ext \in Exts :
         LET downloaded == prepare_filename(out_dir, title, ext)
             converted  == out_dir \o <<47>> \o title \o Mp3Suffix
         IN  \E files \in (SUBSET {downloaded, converted}) \ {{}} :
               dl = [out_dir |-> out_dir, title |-> title, ext |-> ext,
                     files |-> files, done |-> FALSE, result |-> << >>]

\* the call returns
ReturnPath ==
    /\ ~dl.done
    /\ dl' = [dl EXCEPT !.done = TRUE,
                        !.result = download_link_media(
                                      prepare_filename(dl.out_dir, dl.title, dl.ext),
                                      dl.files)]
    /\ UNCHANGED <<session, uploaded_file, run, screen>>

NextDownload == ReturnPath

SpecDownload == InitDownload /\ [][NextDownload]_vars

\* ------------------------------------------------------------------- claims
\* the entry starts with the check mark U+2705
IsSuccessEntry(e) == e # << >> /\ e[1] = 9989
\* the entry starts with the cross mark U+274C
IsFailureEntry(e) == e # << >> /\ e[1] = 10060
\* the entry contains the text
Mentions(e, text) ==
    \E i \in 1..(Len(e) + 1) : SubSeq(e, i, i + Len(text) - 1) = text
\* before is the beginning of after
IsPrefix(before, after) ==
    Len(before) <= Len(after) /\ SubSeq(after, 1, Len(before)) = before
\* every character of the text is whitespace or a line break
AllBlank(text) == \A i \in 1..Len(text) : text[i] \in Whitespace
\* the numbers of the links that succeeded, in increasing order
Succeeded(outs) == SelectSeq([k \in 1..Len(outs) |-> k], LAMBDA k : outs[k].ok)
\* the parts with one blank line between each two
RECURSIVE BlankLineJoined(_)
BlankLineJoined(parts) ==
    IF parts = << >> THEN << >>
    ELSE LET front == SubSeq(parts, 1, Len(parts) - 1)
             last  == parts[Len(parts)]
         IN  IF front = << >> THEN last
             ELSE BlankLineJoined(front) \o <<10, 10>> \o last
\* "### Source: <url>", a line break, the text, for each link that succeeded
ExpectedTranscript(links, outs) ==
    LET ok == Succeeded(outs)
    IN  BlankLineJoined([i \in 1..Len(ok) |->
            <<35, 35, 35, 32, 83, 111, 117, 114, 99, 101, 58, 32>>
                \o links[ok[i]] \o <<10>> \o outs[ok[i]].text])
\* bytes.decode("utf-8") of well-formed UTF-8
RECURSIVE decode(_)
decode(bytes) ==
    IF bytes = << >> THEN << >>
    ELSE LET b == bytes[1]
             c(i) == bytes[i] - 128
         IN  IF b < 128 THEN <<b>> \o decode(Drop(bytes, 2))
             ELSE IF b < 224
                  THEN <<(b - 192) * 64 + c(2)>> \o decode(Drop(bytes, 3))
             ELSE IF b < 240
                  THEN <<(b - 224) * 4096 + c(2) * 64 + c(3)>> \o decode(Drop(bytes, 4))
             ELSE <<(b - 240) * 262144 + c(2) * 4096 + c(3) * 64 + c(4)>>
                      \o decode(Drop(bytes, 5))

\* C1: a click on "Transcribe Links" in which at least one link succeeds
\* leaves as transcript exactly the sections of the links that succeeded,
\* "### Source: <url>" and the link's text, joined by a blank line in the
\* order of the links; nothing of a failing link or of the old transcript.
C1_LinksTranscript ==
    [][(run'.button = "links" /\ \E k \in 1..Len(run'.outs) : run'.outs[k].ok)
          => transcript' = ExpectedTranscript(split_links(links_input), run'.outs)]_vars

\* a batch whose first link failed and whose second succeeded, over an
\* earlier transcript's place
C1_Witness ==
    /\ run.button = "links"
    /\ Len(run.outs) = 2
    /\ ~run.outs[1].ok /\ run.outs[2].ok /\ run.outs[2].text # << >>
    /\ transcript = <<35, 35, 35, 32, 83, 111, 117, 114, 99, 101, 58, 32>>
                        \o run.links[2] \o <<10>> \o run.outs[2].text

\* C2: a click on "Transcribe Links" with N >= 1 links appends exactly N
\* entries to the log, entry k a success entry naming link k when link k
\* succeeded and a failure entry naming it when it failed; every link is
\* tried, whatever happened to the links before it.
C2_LinksLog ==
    [][LET links == split_links(links_input)
           n     == Len(links)
       IN  (run'.button = "links" /\ n > 0)
              => /\ Len(status_log') = Len(status_log) + n
                 /\ IsPrefix(status_log, status_log')
                 /\ run'.downloads = n
                 /\ \A k \in 1..n :
                      LET e == status_log'[Len(status_log) + k]
                      IN  /\ Mentions(e, links[k])
                          /\ IF run'.outs[k].ok
                             THEN IsSuccessEntry(e) /\ ~IsFailureEntry(e)
                             ELSE IsFailureEntry(e) /\ ~IsSuccessEntry(e)]_vars

\* a batch of two different links, the first failed, the second succeeded,
\* and the log has the failure entry before the success entry
C2_Witness ==
    /\ run.button = "links"
    /\ Len(run.outs) = 2
    /\ run.links[1] # run.links[2]
    /\ ~run.outs[1].ok /\ run.outs[2].ok
    /\ Len(status_log) = 2
    /\ IsFailureEntry(status_log[1]) /\ IsSuccessEntry(status_log[2])

\* C3: when every link of a non-empty batch fails, the transcript is what
\* it was before the click, and the log has one more failure entry per link.
C3_AllLinksFail ==
    [][LET n == Len(split_links(links_input))
       IN  (run'.button = "links" /\ n > 0
               /\ \A k \in 1..Len(run'.outs) : ~run'.outs[k].ok)
              => /\ transcript' = transcript
                 /\ Len(status_log') = Len(status_log) + n
                 /\ IsPrefix(status_log, status_log')
                 /\ \A k \in 1..n : IsFailureEntry(status_log'[Len(status_log) + k])]_vars

\* a batch whose links all failed, over a transcript that is not empty
C3_Witness ==
    /\ run.button = "links"
    /\ run.outs # << >>
    /\ \A k \in 1..Len(run.outs) : ~run.outs[k].ok
    /\ transcript # << >>
    /\ IsFailureEntry(status_log[Len(status_log)])

\* C4: "Transcribe Links" over a links text without a non-blank line, and
\* "Transcribe Uploaded Video" without a file, warn and change neither the
\* transcript, the log, the links text nor the uploader's version, and call
\* neither collaborator.
C4_Validation ==
    [][(\/ run'.button = "links" /\ AllBlank(links_input)
        \/ run'.button = "upload" /\ uploaded_file = << >>)
          => /\ run'.notice = "warning"
             /\ run'.downloads = 0 /\ run'.transcriptions = 0
             /\ transcript' = transcript
             /\ status_log' = status_log
             /\ links_input' = links_input
             /\ uploader_version' = uploader_version]_vars

\* the links handler has warned about a links text of whitespace lines
C4_Witness ==
    /\ run.button = "links"
    /\ run.notice = "warning"
    /\ Len(links_input) > 1
    /\ AllBlank(links_input)
    /\ transcript # << >>
    /\ status_log # << >>

\* C5: with a file in the uploader, a transcription that raises shows an
\* error and leaves the transcript and the log as they were; one that
\* returns replaces the transcript by its text and appends one success
\* entry to the log.
C5_Upload ==
    [][(run'.button = "upload" /\ uploaded_file # << >>)
          => IF run'.outs[1].ok
             THEN /\ transcript' = run'.outs[1].text
                  /\ Len(status_log') = Len(status_log) + 1
                  /\ IsPrefix(status_log, status_log')
                  /\ IsSuccessEntry(status_log'[Len(status_log')])
             ELSE /\ run'.notice = "error"
                  /\ transcript' = transcript
                  /\ status_log' = status_log]_vars

\* the transcription of the upload has raised over a transcript and a log
\* that are not empty
C5_Witness ==
    /\ run.button = "upload"
    /\ run.notice = "error"
    /\ transcript # << >>
    /\ status_log # << >>

\* C6: "Clear Transcript" empties the transcript, leaves the links text and
\* the uploader's version, and appends one entry to the log; "Clear Links +
\* Drag Content" empties the links text, changes the uploader's version,
\* leaves the transcript, and appends one entry to the log.
C6_ClearActions ==
    [][/\ run'.button = "clear_transcript"
          => /\ transcript' = << >>
             /\ links_input' = links_input
             /\ uploader_version' = uploader_version
             /\ Len(status_log') = Len(status_log) + 1
             /\ IsPrefix(status_log, status_log')
       /\ run'.button = "clear_links"
          => /\ links_input' = << >>
             /\ uploader_version' # uploader_version
             /\ transcript' = transcript
             /\ Len(status_log') = Len(status_log) + 1
             /\ IsPrefix(status_log, status_log')]_vars

\* C7: the feed on the screen has at most 10 entries, the last min(10,
\* length) entries of the log, most recent first; no feed for an empty log.
C7_Feed ==
    /\ screen.has_feed
          => /\ Len(screen.feed) <= 10
             /\ Len(screen.feed) = (IF Len(status_log) < 10 THEN Len(status_log) ELSE 10)
             /\ \A i \in 1..Len(screen.feed) :
                    screen.feed[i] = status_log[Len(status_log) + 1 - i]
    /\ status_log = << >> => ~screen.has_feed

\* a feed of a log of more than 10 entries, with different entries
C7_Witness ==
    /\ screen.has_feed
    /\ Len(status_log) > 10
    /\ status_log[1] # status_log[2]
    /\ screen.feed[1] # screen.feed[10]

C9_Mp3OrDownloaded ==
    dl.done =>
        LET downloaded == dl.out_dir \o <<47>> \o dl.title \o <<46>> \o dl.ext
            converted  == dl.out_dir \o <<47>> \o dl.title \o <<46, 109, 112, 51>>
        IN  /\ dl.result = converted <=> converted \in dl.files
            /\ converted \notin dl.files => dl.result = downloaded

\* the converted file is absent, the title and the directory have dots, and
\* the downloaded file's path was returned
C9_Witness ==
    /\ dl.done
    /\ dl.ext # <<109, 112, 51>>
    /\ \E i \in 1..Len(dl.title) : dl.title[i] = 46
    /\ \E i \in 1..Len(dl.out_dir) : dl.out_dir[i] = 46
    /\ dl.out_dir \o <<47>> \o dl.title \o <<46, 109, 112, 51>> \notin dl.files
    /\ dl.result = dl.out_dir \o <<47>> \o dl.title \o <<46>> \o dl.ext

\* C10: the log before a step is the beginning of the log after it, also
\* when the feed shows only 10 of its entries.
C10_AppendOnly ==
    [][IsPrefix(status_log, status_log')]_vars

\* a log of more than 10 entries of which the feed shows 10
C10_Witness ==
    /\ Len(status_log) > 10
    /\ screen.has_feed
    /\ Len(screen.feed) = 10
    /\ run.button = "clear_transcript"

====
